---- MODULE Spec2Model ----
(***************************************************************************)
(* Chandy-Lamport snapshot simulation of src/controller.ts: VirtualPeer,   *)
(* VirtualConnection, SnapshotTask, Message and connect.                   *)
(*                                                                         *)
(* VirtualConnection.send is a setTimeout with the connection's delay.     *)
(* The runtime keeps the pending timers of one duration in the order they  *)
(* were set and fires them in that order.  The delay is only a wish        *)
(* (lines 54-56): a callback may run late, so timers of different          *)
(* durations fire in either order.  Each callback (one handleMessage)      *)
(* runs to completion before the next one starts.                          *)
(***************************************************************************)
EXTENDS Integers, Sequences, FiniteSets, TLC

\* ---- the peers and the inputs of the controller's scenario ---------------
Peers == {"i", "j", "k"}
NoPeer == "none"
InitialResources == 100

\* the connect calls of the scenario, in the order the controller makes them
Wiring == << <<"i", "j", 1000, 1300>>, <<"j", "k", 2100, 2400>>, <<"i", "k", 1600, 1900>> >>

\* the snapshot ids and the payments the driver may ask for: the
\* controller's first snapshot and its two payments, and snapshot 7
Epochs == {7, 201}
Payments == { <<"j", "k", 35>>, <<"i", "j", 32>> }

\* ---- bounds ------------------------------------------------------------
\* the number of calls (connect, initiateSnapshot, initiatePayment) the driver
\* makes: with the three connect calls of the scenario two more calls, with
\* fewer connect calls more of them
MaxCalls == 5

\* the same number in the runs of FairSpec, where every set timer fires
MaxFairCalls == 4

VARIABLES
  connections,    \* peer -> its VirtualConnection list, in connect order
  resources,      \* peer -> its resources
  snapshotTasks,  \* peer -> its SnapshotTask list
  timers,         \* duration -> the pending setTimeout callbacks, in the order set
  sent,           \* <<local, remote>> -> the messages the connection logged as sent
  received,       \* <<local, remote>> -> the messages the connection logged as received
  reports,        \* peer -> the completion lines it logged, in order
  calls,          \* the initiateSnapshot and initiatePayment calls made, in order
  thrown          \* peer -> number of errors its calls raised to the caller

vars == <<connections, resources, snapshotTasks, timers, sent, received, reports,
          calls, thrown>>

Channels == {ch \in Peers \X Peers : ch[1] # ch[2]}
Durations == UNION {{Wiring[w][3], Wiring[w][4]} : w \in 1..Len(Wiring)}

\* ---- helpers -----------------------------------------------------------
RECURSIVE SumSeq(_)
SumSeq(s) == IF s = <<>> THEN 0 ELSE Head(s) + SumSeq(Tail(s))

RECURSIVE SumOver(_, _)
SumOver(S, f) ==
  IF S = {} THEN 0 ELSE LET x == CHOOSE y \in S : TRUE IN f[x] + SumOver(S \ {x}, f)

\* the first position of a set of positions, 0 when there is none
\* (what Array.find and Array.indexOf come to)
First(positions) ==
  IF positions = {} THEN 0 ELSE CHOOSE m \in positions : \A l \in positions : m <= l

Message(type, value) == [type |-> type, value |-> value]

\* ---- VirtualConnection --------------------------------------------------
VirtualConnection(local, remote, delay) ==
  [local |-> local, remote |-> remote, delay |-> delay]

\* (variant) a delay that depends on the kind of message
SendDelayByKind(conn, message) ==
  IF message.type = "snapshot" THEN 1000 ELSE conn.delay

\* the delay send hands to setTimeout
SendDelay(conn, message) == conn.delay

\* setTimeout(callback, delay): the callback joins the timers of its duration
SetTimeout(pending, callback, delay) ==
  [pending EXCEPT ![delay] = Append(@, callback)]

\* (variant) a send on the first connection only
SendFirst(pending, conns, message) ==
  IF conns = <<>> THEN pending
  ELSE SetTimeout(pending,
                  [local |-> Head(conns).local, remote |-> Head(conns).remote,
                   message |-> message],
                  SendDelay(Head(conns), message))

\* send(message) on every connection of conns, in order
RECURSIVE SendAll(_, _, _)
SendAll(pending, conns, message) ==
  IF conns = <<>> THEN pending
  ELSE SendAll(SetTimeout(pending,
                          [local |-> Head(conns).local, remote |-> Head(conns).remote,
                           message |-> message],
                          SendDelay(Head(conns), message)),
               Tail(conns), message)

\* the lines send logs for them
LogSent(log, conns, message) ==
  [ch \in Channels |->
     IF \E c \in 1..Len(conns) : <<conns[c].local, conns[c].remote>> = ch
     THEN Append(log[ch], message) ELSE log[ch]]

\* ---- SnapshotTask --------------------------------------------------------
\* (variant) a task that does not record the peer's resources
NewTaskNoResources(p, id) ==
  [id |-> id,
   receiveStatus |-> [c \in 1..Len(connections[p]) |-> FALSE],
   capturedResources |-> [c \in 1..(Len(connections[p]) + 1) |-> 0]]

\* (variant) a task that records the peer's initial resources
NewTaskInitialResources(p, id) ==
  [id |-> id,
   receiveStatus |-> [c \in 1..Len(connections[p]) |-> FALSE],
   capturedResources |->
     [c \in 1..(Len(connections[p]) + 1) |->
        IF c <= Len(connections[p]) THEN 0 ELSE InitialResources]]

NewTask(p, id) ==
  [id |-> id,
   receiveStatus |-> [c \in 1..Len(connections[p]) |-> FALSE],
   capturedResources |->
     [c \in 1..(Len(connections[p]) + 1) |->
        IF c <= Len(connections[p]) THEN 0 ELSE resources[p]]]

\* (variant) a lookup that never finds the task
FindTaskNone(tasks, id) == 0

\* (variant) a lookup that takes the first task, whatever its id
FindTaskFirst(tasks, id) == IF tasks = <<>> THEN 0 ELSE 1

\* this.snapshotTasks.find(k => k.id === id), as a position
FindTask(tasks, id) == First({m \in 1..Len(tasks) : tasks[m].id = id})

\* this.connections.map(k => k.remote).indexOf(remote)
RemoteIndex(p, remote) ==
  First({c \in 1..Len(connections[p]) : connections[p][c].remote = remote})

\* (variant) a peer that never stops listening
ListeningAlways(task, remoteIndex) == TRUE

\* !snapshot.receiveStatus[remoteIndex]
Listening(task, remoteIndex) == ~task.receiveStatus[remoteIndex]

\* (variant) a task that counts as finished once one channel is closed
FinishedFirst(task) == \E c \in 1..Len(task.receiveStatus) : task.receiveStatus[c]

\* (variant) a task that never counts as finished
FinishedNever(task) == FALSE

\* !snapshot.receiveStatus.filter(k => !k).length
Finished(task) == \A c \in 1..Len(task.receiveStatus) : task.receiveStatus[c]

CloseChannel(task, remoteIndex) ==
  [task EXCEPT !.receiveStatus[remoteIndex] = TRUE]

\* (variants) a resource branch that ignores the receive status
CaptureAlways(task, remoteIndex, value) ==
  [task EXCEPT !.capturedResources[remoteIndex] = @ + value]

CaptureNever(task, remoteIndex, value) == task

\* the body of snapshotTasks.map in the resource branch
Capture(task, remoteIndex, value) ==
  IF Listening(task, remoteIndex)
  THEN [task EXCEPT !.capturedResources[remoteIndex] = @ + value]
  ELSE task

\* ---- initial state: the peers constructed, nothing connected -------------
Init ==
  /\ connections = [p \in Peers |-> <<>>]
  /\ resources = [p \in Peers |-> InitialResources]
  /\ snapshotTasks = [p \in Peers |-> <<>>]
  /\ timers = [d \in Durations |-> <<>>]
  /\ sent = [ch \in Channels |-> <<>>]
  /\ received = [ch \in Channels |-> <<>>]
  /\ reports = [p \in Peers |-> <<>>]
  /\ calls = <<>>
  /\ thrown = [p \in Peers |-> 0]

\* ---- connect(a, b, delayab, delayba) --------------------------------------
\* connections are established before any traffic
NoTraffic == calls = <<>>

\* the number of connect calls made so far
Wired == SumOver(Peers, [p \in Peers |-> Len(connections[p])]) \div 2

Connect(a, b, delayab, delayba) ==
  /\ NoTraffic
  /\ Wired + Len(calls) < MaxCalls
  /\ connections' = [connections EXCEPT
       ![a] = Append(@, VirtualConnection(a, b, delayab)),
       ![b] = Append(@, VirtualConnection(b, a, delayba))]
  /\ UNCHANGED <<resources, snapshotTasks, timers, sent, received, reports,
                 calls, thrown>>

\* ---- handleMessage(message, remote) on peer p -----------------------------
\* pending: the timers still set when the handler starts
\* this.connections.map(k => k.send(message))
Broadcast(p, message, pending) ==
  /\ timers' = SendAll(pending, connections[p], message)
  /\ sent' = LogSent(sent, connections[p], message)

NoSend(pending) ==
  /\ timers' = pending
  /\ sent' = sent

HandleSnapshot(p, message, remote, pending) ==
  LET tasks == snapshotTasks[p]
      found == FindTask(tasks, message.value)
      tasks1 == IF found = 0 THEN Append(tasks, NewTask(p, message.value)) ELSE tasks
      n == IF found = 0 THEN Len(tasks1) ELSE found
      remoteIndex == RemoteIndex(p, remote)
      closed == CloseChannel(tasks1[n], remoteIndex)
  IN
  /\ resources' = resources
  /\ IF remote = NoPeer
     THEN /\ snapshotTasks' = [snapshotTasks EXCEPT ![p] = tasks1]
          /\ Broadcast(p, message, pending)
          /\ reports' = reports
     ELSE IF Listening(tasks1[n], remoteIndex)
     THEN /\ snapshotTasks' = [snapshotTasks EXCEPT ![p] = [tasks1 EXCEPT ![n] = closed]]
          /\ IF Finished(closed)
             THEN /\ reports' = [reports EXCEPT ![p] =
                        Append(@, [id |-> closed.id, vector |-> closed.capturedResources])]
                  /\ NoSend(pending)
             ELSE /\ reports' = reports
                  /\ Broadcast(p, message, pending)
     ELSE /\ snapshotTasks' = [snapshotTasks EXCEPT ![p] = tasks1]
          /\ NoSend(pending)
          /\ reports' = reports

HandleResource(p, message, remote, pending) ==
  LET remoteIndex == RemoteIndex(p, remote)
  IN
  /\ resources' = [resources EXCEPT ![p] = @ + message.value]
  /\ snapshotTasks' = [snapshotTasks EXCEPT ![p] =
       [t \in 1..Len(@) |-> Capture(@[t], remoteIndex, message.value)]]
  /\ NoSend(pending)
  /\ reports' = reports

HandleMessage(p, message, remote, pending) ==
  IF message.type = "snapshot"
  THEN HandleSnapshot(p, message, remote, pending)
  ELSE HandleResource(p, message, remote, pending)

\* ---- the timer callback of send: deliver to the remote peer ---------------
\* the oldest timer of duration d fires
Deliver(d) ==
  /\ timers[d] # <<>>
  /\ LET callback == Head(timers[d])
     IN /\ received' = [received EXCEPT ![<<callback.local, callback.remote>>] =
             Append(@, callback.message)]
        /\ HandleMessage(callback.remote, callback.message, callback.local,
                         [timers EXCEPT ![d] = Tail(@)])
  /\ UNCHANGED <<connections, calls, thrown>>

\* ---- the driver ---------------------------------------------------------------
SnapshotCall(p, id) ==
  [op |-> "initiateSnapshot", peer |-> p, value |-> id, receiver |-> NoPeer]
PaymentCall(p, receiver, amount) ==
  [op |-> "initiatePayment", peer |-> p, value |-> amount, receiver |-> receiver]

\* ---- initiateSnapshot(id) on peer p ----------------------------------------
InitiateSnapshot(p, id) ==
  /\ Wired + Len(calls) < MaxCalls
  /\ calls' = Append(calls, SnapshotCall(p, id))
  /\ HandleMessage(p, Message("snapshot", id), NoPeer, timers)
  /\ UNCHANGED <<connections, received, thrown>>

\* ---- initiatePayment(receiver, amount) on peer p ---------------------------
\* (variant) a lookup that falls back to the first connection
FindConnectionOrFirst(p, receiver) ==
  IF RemoteIndex(p, receiver) = 0 /\ connections[p] # <<>> THEN 1 ELSE RemoteIndex(p, receiver)

\* this.connections.find(k => k.remote === receiver), as a position
FindConnection(p, receiver) == RemoteIndex(p, receiver)

InitiatePayment(p, receiver, amount) ==
  LET c == FindConnection(p, receiver)
      message == Message("resource", amount)
  IN
  /\ Wired + Len(calls) < MaxCalls
  /\ calls' = Append(calls, PaymentCall(p, receiver, amount))
  /\ resources' = [resources EXCEPT ![p] = @ - amount]
  /\ IF c # 0
     THEN /\ timers' = SendAll(timers, <<connections[p][c]>>, message)
          /\ sent' = LogSent(sent, <<connections[p][c]>>, message)
          /\ thrown' = thrown
     ELSE \* find returned undefined: .send raises a TypeError, nothing is sent
          /\ NoSend(timers)
          /\ thrown' = [thrown EXCEPT ![p] = @ + 1]
  /\ UNCHANGED <<connections, snapshotTasks, received, reports>>

Next ==
  \/ \E w \in 1..Len(Wiring) :
        w = Wired + 1 /\ Connect(Wiring[w][1], Wiring[w][2], Wiring[w][3], Wiring[w][4])
  \/ \E d \in Durations : Deliver(d)
  \/ \E p \in Peers, id \in Epochs : InitiateSnapshot(p, id)
  \/ \E pay \in Payments : InitiatePayment(pay[1], pay[2], pay[3])

Spec == Init /\ [][Next]_vars

\* every timer that was set fires: the runtime runs each callback of
\* setTimeout once its delay has passed
TimersFire == \A d \in Durations : WF_vars(Deliver(d))

\* the steps of a run in which the driver makes MaxFairCalls calls at most
FairCalls == Wired + Len(calls) < MaxFairCalls

FairNext ==
  \/ \E w \in 1..Len(Wiring) :
        /\ FairCalls
        /\ w = Wired + 1
        /\ Connect(Wiring[w][1], Wiring[w][2], Wiring[w][3], Wiring[w][4])
  \/ \E d \in Durations : Deliver(d)
  \/ \E p \in Peers, id \in Epochs : FairCalls /\ InitiateSnapshot(p, id)
  \/ \E pay \in Payments : FairCalls /\ InitiatePayment(pay[1], pay[2], pay[3])

FairSpec == Init /\ [][FairNext]_vars /\ TimersFire

\* ======================================================================
\* Properties
\* ======================================================================

\* ---- observations the properties share -------------------------------------
Connected(a, b) == \E c \in 1..Len(connections[a]) : connections[a][c].remote = b
ChannelIndex(p, remote) == CHOOSE c \in 1..Len(connections[p]) : connections[p][c].remote = remote

TaskIds(p) == [n \in 1..Len(snapshotTasks[p]) |-> snapshotTasks[p][n].id]
HasTask(p, id) == \E n \in 1..Len(snapshotTasks[p]) : snapshotTasks[p][n].id = id
TaskOf(p, id) == snapshotTasks[p][CHOOSE n \in 1..Len(snapshotTasks[p]) : snapshotTasks[p][n].id = id]

\* the closed flag of p's task for id on the channel from remote
Closed(p, id, remote) == TaskOf(p, id).receiveStatus[ChannelIndex(p, remote)]

\* p has completed id: it holds a task for id and every closed flag is true
Completed(p, id) ==
  HasTask(p, id) /\ \A c \in 1..Len(connections[p]) : TaskOf(p, id).receiveStatus[c]

Marker(id) == Message("snapshot", id)
InitiateCount(id) ==
  Cardinality({m \in 1..Len(calls) : calls[m].op = "initiateSnapshot" /\ calls[m].value = id})

\* this step is the call c
Calls(c) == calls' = Append(calls, c)
NoFailedPayment == \A p \in Peers : thrown[p] = 0

\* the completion lines p logged for id
ReportsOf(p, id) == SelectSeq(reports[p], LAMBDA r : r.id = id)

\* all pending timers
RECURSIVE Flatten(_, _)
Flatten(S, f) ==
  IF S = {} THEN <<>> ELSE LET x == CHOOSE y \in S : TRUE IN f[x] \o Flatten(S \ {x}, f)
Pending == Flatten(Durations, timers)

\* this step fires one timer and sets none
FiresOnly == \E d \in Durations : timers[d] # <<>> /\ timers' = [timers EXCEPT ![d] = Tail(@)]

\* how many markers of id the connection has delivered
MarkersReceived(ch, id) ==
  Cardinality({m \in 1..Len(received[ch]) : received[ch][m] = Marker(id)})

\* this step delivers message on the connection ch
Delivers(ch, message) == received'[ch] = Append(received[ch], message)

\* amounts of the resource messages still in flight
InFlight ==
  SumSeq([n \in 1..Len(Pending) |->
            IF Pending[n].message.type = "resource" THEN Pending[n].message.value ELSE 0])
Balances == SumOver(Peers, resources)
TotalResources == Cardinality(Peers) * InitialResources

\* every peer can be reached from every other over the connections
RECURSIVE ReachFrom(_)
ReachFrom(S) ==
  LET T == S \cup {q \in Peers : \E p \in S : Connected(p, q)}
  IN IF T = S THEN S ELSE ReachFrom(T)
TopologyConnected == \A p \in Peers : ReachFrom({p}) = Peers

\* ---- C1 ---------------------------------------------------------------------
CutSum(id) == SumOver(Peers, [p \in Peers |-> SumSeq(TaskOf(p, id).capturedResources)])

\* C1 (cut correctness): when epoch e was initiated by exactly one
\* initiateSnapshot call and every payment went to a connected peer, then in
\* every state where every peer has completed e, the final entries plus the
\* channel entries of all e-vectors add up to the system's total resources.
CutCorrectness ==
  \A id \in Epochs :
    (InitiateCount(id) = 1 /\ NoFailedPayment /\ \A p \in Peers : Completed(p, id))
      => CutSum(id) = TotalResources

\* every peer completed a singly initiated epoch that caught a payment in transit
CutWithTransit ==
  \E id \in Epochs :
    /\ InitiateCount(id) = 1 /\ NoFailedPayment
    /\ \A p \in Peers : Completed(p, id)
    /\ \E p \in Peers : \E c \in 1..Len(connections[p]) :
         TaskOf(p, id).capturedResources[c] > 0

\* ---- C2 ---------------------------------------------------------------------
MarkerInFlight(id) == \E n \in 1..Len(Pending) : Pending[n].message = Marker(id)

\* C2 (snapshot completeness): in a connected topology, after a single
\* initiateSnapshot(e), once no marker of e is in flight any more every peer
\* has completed e.
SnapshotCompleteness ==
  \A id \in Epochs :
    (TopologyConnected /\ InitiateCount(id) = 1 /\ ~MarkerInFlight(id))
      => \A p \in Peers : Completed(p, id)

\* ---- C3 ---------------------------------------------------------------------
ClosedAll(p, id) == Len(connections[p]) > 0 /\ Completed(p, id)

\* C3 (at most one completion per peer per epoch): a peer logs the completion
\* of epoch e at most once, exactly in the step that closes its last open
\* channel for e, and the line carries the task's vector, of length
\* (number of the peer's channels + 1).
OneCompletion ==
  [][\A p \in Peers, id \in Epochs :
       /\ Len(ReportsOf(p, id)') <= 1
       /\ (ReportsOf(p, id)' # ReportsOf(p, id)) <=> (~ClosedAll(p, id) /\ ClosedAll(p, id)')
       /\ \A r \in 1..Len(ReportsOf(p, id)') :
            /\ ReportsOf(p, id)'[r].vector = TaskOf(p, id)'.capturedResources
            /\ Len(ReportsOf(p, id)'[r].vector) = Len(connections'[p]) + 1]_vars

\* a peer reported an epoch that was initiated twice and whose marker reached
\* it twice on one channel
ReportedDespiteRepeats ==
  \E p \in Peers, id \in Epochs :
    /\ Len(ReportsOf(p, id)) = 1
    /\ InitiateCount(id) = 2
    /\ \E s \in Peers \ {p} : MarkersReceived(<<s, p>>, id) >= 2

\* ---- C4 ---------------------------------------------------------------------
\* C4 (transfer conservation): in every reachable state the peers' balances
\* plus the amounts of the resource messages in flight add up to the sum of
\* the initial balances.
TransferConservation == Balances + InFlight = TotalResources

\* ---- C5 ---------------------------------------------------------------------
\* C5 (FIFO per channel): on every connection the messages are received in
\* the order they were sent, whatever their kinds: what the connection has
\* delivered is always an initial part of what was sent on it.
FifoPerChannel ==
  \A ch \in Channels :
    /\ Len(received[ch]) <= Len(sent[ch])
    /\ received[ch] = SubSeq(sent[ch], 1, Len(received[ch]))

\* a connection has delivered a payment and a marker while a later send is pending
MixedKindsDelivered ==
  \E ch \in Channels :
    /\ \E m \in 1..Len(received[ch]) : received[ch][m].type = "resource"
    /\ \E m \in 1..Len(received[ch]) : received[ch][m].type = "snapshot"
    /\ Len(received[ch]) < Len(sent[ch])

\* ---- C6 ---------------------------------------------------------------------
\* C6 (marker idempotency): a marker of epoch e delivered from s to a peer
\* whose closed flag for s in e is already true changes no task, no balance
\* and no report, and sends nothing: the only change is that the delivered
\* timer is gone.
MarkerIdempotency ==
  [][\A ch \in Channels, id \in Epochs :
       LET s == ch[1]
           p == ch[2]
       IN
       (Delivers(<<s, p>>, Marker(id)) /\ HasTask(p, id) /\ Closed(p, id, s)) =>
         /\ snapshotTasks' = snapshotTasks
         /\ resources' = resources
         /\ reports' = reports
         /\ sent' = sent
         /\ FiresOnly]_vars

\* a connection delivered a second marker of an epoch: the second was a duplicate
DuplicateMarkerDelivered ==
  \E ch \in Channels, id \in Epochs : MarkersReceived(ch, id) >= 2

\* ---- C7, C8: the three-peer scenario -----------------------------------------
\* Peers i, j, k stand for A, B, C: fully connected, 100 each, epoch 7
\* initiated at i and nothing else, one payment of 35 from j to k.
\* In Scenario7 the payment is asked for after the initiation, in
\* Scenario7AnyOrder before or after it.
Scenario7 ==
  /\ Wired = 3
  /\ calls = <<SnapshotCall("i", 7), PaymentCall("j", "k", 35)>>

Scenario7AnyOrder ==
  /\ Wired = 3
  /\ \/ calls = <<SnapshotCall("i", 7), PaymentCall("j", "k", 35)>>
     \/ calls = <<PaymentCall("j", "k", 35), SnapshotCall("i", 7)>>

\* positions, in what the connection j > k delivered, of the payment and of
\* the first marker of epoch 7 (0: not delivered yet)
PaymentAt ==
  LET log == received[<<"j", "k">>]
      at == {m \in 1..Len(log) : log[m] = Message("resource", 35)}
  IN IF at = {} THEN 0 ELSE CHOOSE m \in at : \A l \in at : m <= l
FirstMarkerAt ==
  LET log == received[<<"j", "k">>]
      at == {m \in 1..Len(log) : log[m] = Marker(7)}
  IN IF at = {} THEN 0 ELSE CHOOSE m \in at : \A l \in at : m <= l

PaymentFirst == PaymentAt > 0 /\ (FirstMarkerAt = 0 \/ PaymentAt < FirstMarkerAt)
MarkerFirst == FirstMarkerAt > 0 /\ (PaymentAt = 0 \/ FirstMarkerAt < PaymentAt)

CReported == Len(ReportsOf("k", 7)) = 1
CVector == ReportsOf("k", 7)[1].vector
BEntry == CVector[ChannelIndex("k", "j")]
FinalEntry == CVector[Len(CVector)]

\* C7 as stated (payment-first ordering): when the payment is delivered to k
\* before a marker from j closes k's j-channel for epoch 7, k's reported
\* vector has 35 in the j-channel entry and 100 in the final entry.
PaymentFirstCaptured ==
  (Scenario7 /\ PaymentFirst /\ CReported) => (BEntry = 35 /\ FinalEntry = 100)

\* C7 as amended: in that ordering k's reported vector has either 35 in the
\* j-channel entry and 100 in the final entry, or 0 in the j-channel entry
\* and 135 in the final entry (the payment came before k created its task).
PaymentFirstAccounted ==
  (Scenario7AnyOrder /\ PaymentFirst /\ CReported) =>
    \/ (BEntry = 35 /\ FinalEntry = 100)
    \/ (BEntry = 0 /\ FinalEntry = 135)

\* k reported after a payment that arrived while its j-channel was open
PaymentFirstReported ==
  Scenario7 /\ PaymentFirst /\ CReported /\ BEntry = 35

\* C8 (marker-first ordering): when a marker from j closes k's j-channel for
\* epoch 7 before the payment is delivered, k's reported vector has 0 in the
\* j-channel entry and 100 in the final entry, and k's balance once the
\* payment is delivered is 135.
MarkerFirstExcluded ==
  (Scenario7AnyOrder /\ MarkerFirst) =>
    /\ CReported => (BEntry = 0 /\ FinalEntry = 100)
    /\ PaymentAt > 0 => resources["k"] = 135

\* k reported and the payment arrived after the marker from j
MarkerFirstReported ==
  Scenario7 /\ MarkerFirst /\ CReported /\ PaymentAt > 0

\* ---- C9 ---------------------------------------------------------------------
\* C9 (unknown receiver): an initiatePayment on a peer with no connection to
\* the receiver raises an error to the caller and sets no timer.
UnknownReceiverFails ==
  [][\A p \in Peers, receiver \in Peers, amount \in {35, 32} :
       (Calls(PaymentCall(p, receiver, amount)) /\ ~Connected(p, receiver)) =>
         /\ thrown'[p] = thrown[p] + 1
         /\ timers' = timers
         /\ sent' = sent]_vars

\* a payment to an unknown receiver was asked for while a message was in flight
UnknownReceiverAsked ==
  \E m \in 1..Len(calls) :
    /\ calls[m].op = "initiatePayment"
    /\ ~Connected(calls[m].peer, calls[m].receiver)
    /\ Pending # <<>>

\* ---- C10 --------------------------------------------------------------------
\* C10 (at most one task per epoch): a peer never holds two tasks with the
\* same id; its task list only grows, by one task at a time, and only in a
\* step that delivers a marker of a new id to it or initiates a new id on it.
OneTaskPerEpoch ==
  [][\A p \in Peers :
       LET old == TaskIds(p)
           new == TaskIds(p)'
       IN
       /\ \A m, n \in 1..Len(new) : new[m] = new[n] => m = n
       /\ Len(old) <= Len(new) /\ Len(new) <= Len(old) + 1
       /\ SubSeq(new, 1, Len(old)) = old
       /\ Len(new) = Len(old) + 1 =>
            /\ ~HasTask(p, new[Len(new)])
            /\ \/ Calls(SnapshotCall(p, new[Len(new)]))
               \/ \E s \in Peers \ {p} : Delivers(<<s, p>>, Marker(new[Len(new)]))]_vars

\* a peer on which one id was initiated twice, and which also got its marker
TaskReused ==
  \E p \in Peers, id \in Epochs :
    /\ HasTask(p, id)
    /\ Cardinality({m \in 1..Len(calls) : calls[m] = SnapshotCall(p, id)}) = 2
    /\ \E s \in Peers \ {p} : MarkersReceived(<<s, p>>, id) >= 1
\* ---- C11 --------------------------------------------------------------------
\* the amounts the driver pays
Amounts == {pay[3] : pay \in Payments}

\* position in what the connection ch delivered of its first message m (0: none)
FirstAt(ch, m) ==
  LET at == {n \in 1..Len(received[ch]) : received[ch][n] = m}
  IN IF at = {} THEN 0 ELSE CHOOSE n \in at : \A l \in at : n <= l

\* C11 (in-transit rule): when a resource message of amount a from s is
\* delivered to p, every task of p (of any epoch) whose closed flag for s is
\* false gets a added to its s-channel entry and to no other entry, every task
\* of p whose flag for s is true is left as it was, no flag changes and no
\* other peer's task changes.
InTransitRule ==
  [][\A ch \in Channels, a \in Amounts :
       LET s == ch[1]
           p == ch[2]
           c == ChannelIndex(p, s)
           old == snapshotTasks[p]
           new == snapshotTasks'[p]
       IN
       Delivers(<<s, p>>, Message("resource", a)) =>
         /\ Len(new) = Len(old)
         /\ \A n \in 1..Len(old) :
              IF old[n].receiveStatus[c]
              THEN new[n] = old[n]
              ELSE new[n] = [old[n] EXCEPT !.capturedResources[c] = @ + a]
         /\ \A q \in Peers \ {p} : snapshotTasks'[q] = snapshotTasks[q]]_vars

\* a peer holds two tasks when a payment arrives from s: one had closed the
\* channel from s before and kept 0 there, the other was open and has the amount
TransitSplitsEpochs ==
  \E ch \in Channels, id1 \in Epochs, id2 \in Epochs, a \in Amounts :
    LET s == ch[1]
        p == ch[2]
    IN
    /\ id1 # id2 /\ HasTask(p, id1) /\ HasTask(p, id2)
    /\ FirstAt(ch, Marker(id1)) > 0
    /\ FirstAt(ch, Marker(id1)) < FirstAt(ch, Message("resource", a))
    /\ Closed(p, id1, s)
    /\ TaskOf(p, id1).capturedResources[ChannelIndex(p, s)] = 0
    /\ ~Closed(p, id2, s)
    /\ TaskOf(p, id2).capturedResources[ChannelIndex(p, s)] = a

\* ---- C12 --------------------------------------------------------------------
\* C12 (monotone task, complete is terminal): in every step every task a peer
\* holds stays in its place with its id, a closed flag that is true stays
\* true, and a task whose flags are all true is not changed at all, neither
\* its flags nor any entry of its vector.
CompleteIsTerminal ==
  [][\A p \in Peers : \A n \in 1..Len(snapshotTasks[p]) :
       LET old == snapshotTasks[p][n]
           new == snapshotTasks'[p][n]
       IN
       /\ Len(snapshotTasks'[p]) >= Len(snapshotTasks[p])
       /\ new.id = old.id
       /\ DOMAIN new.receiveStatus = DOMAIN old.receiveStatus
       /\ \A c \in DOMAIN old.receiveStatus : old.receiveStatus[c] => new.receiveStatus[c]
       /\ (\A c \in DOMAIN old.receiveStatus : old.receiveStatus[c]) => new = old]_vars

\* a peer with one channel completed an epoch; after that a payment and a
\* second marker of the epoch reached it on that channel and it took part in
\* another epoch: its vector is still the one it completed with
CompleteTaskUntouched ==
  \E ch \in Channels, id1 \in Epochs, id2 \in Epochs, a \in Amounts :
    LET s == ch[1]
        p == ch[2]
    IN
    /\ id1 # id2 /\ HasTask(p, id1) /\ HasTask(p, id2)
    /\ Len(connections[p]) = 1
    /\ Completed(p, id1)
    /\ FirstAt(ch, Marker(id1)) > 0
    /\ FirstAt(ch, Marker(id1)) < FirstAt(ch, Message("resource", a))
    /\ MarkersReceived(ch, id1) >= 2
    /\ TaskOf(p, id1).capturedResources = <<0, InitialResources>>
    /\ resources[p] = InitialResources + a

\* ---- C13 --------------------------------------------------------------------
\* the final entry of a task's vector
FinalOf(task) == task.capturedResources[Len(task.capturedResources)]

\* C13 (task creation and captured balance): a task a step adds to a peer has
\* one closed flag per channel and one entry more than that, all channel
\* entries 0 and the final entry equal to the peer's balance in that step; its
\* flags are all false when the step is an initiateSnapshot, and when the step
\* delivers a marker from s all false but the one of s, which the same step
\* closes.  In every step the final entry of every task already held stays
\* what it was.
CapturedBalance ==
  [][\A p \in Peers :
       LET old == snapshotTasks[p]
           new == snapshotTasks'[p]
           k == Len(connections[p])
       IN
       /\ \A n \in 1..Len(old) : FinalOf(new[n]) = FinalOf(old[n])
       /\ \A n \in (Len(old) + 1)..Len(new) :
            /\ Len(new[n].receiveStatus) = k
            /\ Len(new[n].capturedResources) = k + 1
            /\ \A c \in 1..k : new[n].capturedResources[c] = 0
            /\ FinalOf(new[n]) = resources[p]
            /\ FinalOf(new[n]) = resources'[p]
            /\ \/ /\ Calls(SnapshotCall(p, new[n].id))
                  /\ \A c \in 1..k : ~new[n].receiveStatus[c]
               \/ \E s \in Peers \ {p} :
                    /\ Delivers(<<s, p>>, Marker(new[n].id))
                    /\ \A c \in 1..k :
                         new[n].receiveStatus[c] <=> c = ChannelIndex(p, s)]_vars

\* j created a task, then paid 35 and was paid 32: the final entry is still
\* the balance it had when it created the task; and a task was created by a
\* peer whose balance was no longer the initial one
BalanceKeptAcrossPayments ==
  \E id \in Epochs :
    /\ HasTask("j", id)
    /\ FinalOf(TaskOf("j", id)) = InitialResources
    /\ resources["j"] = InitialResources - 35 + 32
    /\ \E p \in Peers \ {"j"} :
         HasTask(p, id) /\ FinalOf(TaskOf(p, id)) # InitialResources

\* ---- C14 --------------------------------------------------------------------
\* the timer send sets for message on the connection from p to q
Callback(p, q, message) == [local |-> p, remote |-> q, message |-> message]

\* the delay of the connection from p to q
DelayOf(p, q) == connections[p][ChannelIndex(p, q)].delay

\* C14 (origination): a step that is initiateSnapshot(e) on p sets exactly one
\* timer carrying the marker of e on every connection of p and none elsewhere,
\* and sets no closed flag: a task p already holds for e, open or complete, is
\* left as it was, a new one has all flags false; no report is logged.  So in
\* every state a peer that has completed e has had a marker of e delivered on
\* every one of its inbound channels.
Origination ==
  [][\A p \in Peers, id \in Epochs :
       /\ Calls(SnapshotCall(p, id)) =>
            /\ \A ch \in Channels :
                 sent'[ch] = IF ch[1] = p /\ Connected(p, ch[2])
                             THEN Append(sent[ch], Marker(id)) ELSE sent[ch]
            /\ \A d \in Durations :
                 timers'[d] = IF \E q \in Peers : Connected(p, q) /\ DelayOf(p, q) = d
                              THEN LET q == CHOOSE r \in Peers :
                                              Connected(p, r) /\ DelayOf(p, r) = d
                                   IN Append(timers[d], Callback(p, q, Marker(id)))
                              ELSE timers[d]
            /\ IF HasTask(p, id)
               THEN snapshotTasks'[p] = snapshotTasks[p]
               ELSE /\ HasTask(p, id)'
                    /\ \A c \in 1..Len(connections[p]) : ~TaskOf(p, id)'.receiveStatus[c]
            /\ \A q \in Peers \ {p} : snapshotTasks'[q] = snapshotTasks[q]
            /\ reports' = reports
       /\ Completed(p, id)' =>
            \A s \in Peers : Connected(p, s) => MarkersReceived(<<s, p>>, id)' >= 1]_vars

\* i completed epoch 7 by j's marker (its final entry is its balance before
\* it paid), paid, and only then was asked to initiate epoch 7: it sent the
\* marker once more and its task is as it was
OriginationOnCompleteTask ==
  /\ Wired = 1
  /\ calls = <<SnapshotCall("j", 7), PaymentCall("i", "j", 32), SnapshotCall("i", 7)>>
  /\ Completed("i", 7)
  /\ TaskOf("i", 7).capturedResources = <<0, InitialResources>>
  /\ sent[<<"i", "j">>] = <<Message("resource", 32), Marker(7)>>

\* ---- C15 --------------------------------------------------------------------
\* how many markers of id the connection ch has logged as sent
MarkersSent(ch, id) ==
  Cardinality({m \in 1..Len(sent[ch]) : sent[ch][m] = Marker(id)})

\* how often initiateSnapshot(id) was called on p
Originations(p, id) ==
  Cardinality({m \in 1..Len(calls) : calls[m] = SnapshotCall(p, id)})

\* C15 (relay rule): a step that delivers a marker of e from s to p while p's
\* flag for s is open (or p holds no task for e yet) closes that flag and no
\* other, and then (a) if another flag of the task is still open, sends one
\* marker of e on every connection of p, the one back to s included, or (b) if
\* that was the last open flag, sends nothing; so a peer with exactly one
\* channel on which e was never initiated never sends a marker of e.
RelayRule ==
  [][\A p \in Peers, id \in Epochs :
       /\ \A s \in Peers \ {p} :
            (Delivers(<<s, p>>, Marker(id)) /\ (HasTask(p, id) => ~Closed(p, id, s))) =>
              /\ HasTask(p, id)' /\ Closed(p, id, s)'
              /\ \A c \in 1..Len(connections[p]) :
                   c # ChannelIndex(p, s) =>
                     (TaskOf(p, id)'.receiveStatus[c] <=>
                        (HasTask(p, id) /\ TaskOf(p, id).receiveStatus[c]))
              /\ IF Completed(p, id)'
                 THEN sent' = sent /\ FiresOnly
                 ELSE /\ Connected(p, s)
                      /\ \A ch \in Channels :
                           sent'[ch] = IF ch[1] = p /\ Connected(p, ch[2])
                                       THEN Append(sent[ch], Marker(id)) ELSE sent[ch]
                      /\ \A d \in Durations :
                           LET rest == IF d = DelayOf(s, p) THEN Tail(timers[d]) ELSE timers[d]
                           IN timers'[d] =
                                IF \E q \in Peers : Connected(p, q) /\ DelayOf(p, q) = d
                                THEN LET q == CHOOSE r \in Peers :
                                                Connected(p, r) /\ DelayOf(p, r) = d
                                     IN Append(rest, Callback(p, q, Marker(id)))
                                ELSE rest
       /\ (Len(connections[p]) = 1 /\ Originations(p, id)' = 0) =>
            \A q \in Peers \ {p} : MarkersSent(<<p, q>>, id)' = 0]_vars

\* a peer with two channels, on which the epoch was not initiated, completed
\* it: it relayed on its first close, back to the sender too, and sent nothing
\* on its last
RelayedOnceThenSilent ==
  \E p \in Peers, id \in Epochs :
    /\ Len(connections[p]) = 2 /\ Originations(p, id) = 0 /\ Completed(p, id)
    /\ \A q \in Peers \ {p} : MarkersSent(<<p, q>>, id) = 1

\* ---- C16 --------------------------------------------------------------------
\* the task of p for id before a step: the one it holds, or else the one the
\* step is to create from p's connections and balance
TaskBefore(p, id) ==
  IF HasTask(p, id) THEN TaskOf(p, id)
  ELSE [id |-> id,
        receiveStatus |-> [c \in 1..Len(connections[p]) |-> FALSE],
        capturedResources |->
          [c \in 1..(Len(connections[p]) + 1) |->
             IF c <= Len(connections[p]) THEN 0 ELSE resources[p]]]

\* the step leaves alone every balance, every other peer's tasks, and p's
\* tasks and reports of the epochs other than id
OtherEpochsUnchanged(p, id) ==
  /\ resources' = resources
  /\ \A q \in Peers \ {p} : snapshotTasks'[q] = snapshotTasks[q] /\ reports'[q] = reports[q]
  /\ \A id2 \in Epochs \ {id} :
       /\ HasTask(p, id2)' <=> HasTask(p, id2)
       /\ HasTask(p, id2) => TaskOf(p, id2)' = TaskOf(p, id2)
       /\ ReportsOf(p, id2)' = ReportsOf(p, id2)

\* C16 (epoch independence): a step that is initiateSnapshot(e) on p or
\* delivers a marker of e to p changes only p's task for e, and leaves p's
\* tasks and reports of every other epoch, every other peer's tasks and every
\* balance unchanged; and what it makes of p's task for e depends on that task
\* alone (or, when p holds none, on p's connections and balance): initiation
\* leaves it as it is, a marker from s sets its flag for s.  So the vector p
\* reports for e is the same whether or not other epochs overlap with e.
EpochIndependence ==
  [][\A p \in Peers, id \in Epochs :
       /\ Calls(SnapshotCall(p, id)) =>
            /\ HasTask(p, id)' /\ TaskOf(p, id)' = TaskBefore(p, id)
            /\ ReportsOf(p, id)' = ReportsOf(p, id)
            /\ OtherEpochsUnchanged(p, id)
       /\ \A s \in Peers \ {p} :
            Delivers(<<s, p>>, Marker(id)) =>
              /\ HasTask(p, id)'
              /\ TaskOf(p, id)' =
                   [TaskBefore(p, id) EXCEPT !.receiveStatus[ChannelIndex(p, s)] = TRUE]
              /\ OtherEpochsUnchanged(p, id)]_vars

\* a peer reported two epochs that overlapped in the run, with different
\* vectors: a payment that arrived while one epoch's channel was closed and
\* the other's open is in the second vector only
OverlappingEpochsReported ==
  \E ch \in Channels, id1 \in Epochs, id2 \in Epochs, a \in Amounts :
    LET s == ch[1]
        p == ch[2]
        c == ChannelIndex(p, s)
    IN
    /\ id1 # id2 /\ Connected(p, s)
    /\ Len(ReportsOf(p, id1)) = 1 /\ Len(ReportsOf(p, id2)) = 1
    /\ ReportsOf(p, id1)[1].vector[c] = 0
    /\ ReportsOf(p, id2)[1].vector[c] = a
    /\ FinalOf(TaskOf(p, id1)) = FinalOf(TaskOf(p, id2))

\* ---- C17 --------------------------------------------------------------------
\* how many closed flags p's task for id has (0 when it holds none)
ClosedCount(p, id) ==
  IF HasTask(p, id)
  THEN Cardinality({c \in 1..Len(connections[p]) : TaskOf(p, id).receiveStatus[c]})
  ELSE 0

\* how many relay broadcasts p has made for id: one per close but the last
Relays(p, id) ==
  IF ClosedCount(p, id) = Len(connections[p])
  THEN (IF Len(connections[p]) = 0 THEN 0 ELSE Len(connections[p]) - 1)
  ELSE ClosedCount(p, id)

NoMarkerInFlight == \A id \in Epochs : ~MarkerInFlight(id)

\* C17 (marker traffic terminates): after every step the markers of e a peer
\* has sent on each of its connections are one per initiateSnapshot(e) called
\* on it plus one per relay broadcast, and it has relayed once per flag it
\* closed but the last, so at most (number of its channels - 1) times; and,
\* every set timer firing, from some point on no marker is in flight.
MarkerTrafficTerminates ==
  /\ [][\A p \in Peers, id \in Epochs :
          /\ Relays(p, id)' <= (IF Len(connections[p]) = 0 THEN 0 ELSE Len(connections[p]) - 1)
          /\ \A q \in Peers \ {p} :
               Connected(p, q)' =>
                 MarkersSent(<<p, q>>, id)' = Originations(p, id)' + Relays(p, id)']_vars
  /\ <>[]NoMarkerInFlight

\* the fully connected peers all completed an epoch, markers were forwarded
\* again on second closes and delivered as duplicates, and none is in flight
MarkersDrained ==
  \E id \in Epochs :
    /\ Wired = 3 /\ NoMarkerInFlight
    /\ \A p \in Peers : Completed(p, id)
    /\ \E ch \in Channels : MarkersReceived(ch, id) >= 2
    /\ SumOver(Channels, [ch \in Channels |-> MarkersSent(ch, id)]) >
         Cardinality(Channels)

\* ---- C18 --------------------------------------------------------------------
\* C18 (a failed initiatePayment has no effect): a step that is an
\* initiatePayment on a peer with no connection to the receiver leaves every
\* balance, every task, every timer and every log as it was, so balances plus
\* in-flight amounts are still the initial total after it.
FailedPaymentNoEffect ==
  [][\A p \in Peers, receiver \in Peers, a \in Amounts :
       (Calls(PaymentCall(p, receiver, a)) /\ ~Connected(p, receiver)) =>
         /\ resources' = resources
         /\ snapshotTasks' = snapshotTasks
         /\ timers' = timers
         /\ sent' = sent /\ received' = received /\ reports' = reports
         /\ (Balances + InFlight = TotalResources) => (Balances + InFlight)' = TotalResources]_vars

\* ---- C19 --------------------------------------------------------------------
\* C19 (cut correctness with several originations of one epoch): when
\* initiateSnapshot(e) was called more than once, in a connected topology
\* and with every payment going to a connected peer, then in every state
\* where every peer has completed e the final entries plus the channel
\* entries of all e-vectors add up to the system's total resources.
RepeatedOriginationCut ==
  \A id \in Epochs :
    (/\ InitiateCount(id) >= 2 /\ TopologyConnected /\ NoFailedPayment
     /\ \A p \in Peers : Completed(p, id))
      => CutSum(id) = TotalResources

\* ---- C20 --------------------------------------------------------------------
\* C20 (marker reaches everyone): in a connected topology, after a single
\* initiateSnapshot(e) on any peer, every peer eventually holds a task for e
\* (has recorded its balance), every set timer firing; also the peers that
\* never complete e.
MarkerReachesEveryone ==
  \A id \in Epochs :
    (TopologyConnected /\ InitiateCount(id) = 1) ~> (\A p \in Peers : HasTask(p, id))

\* a connected topology after a single initiation: no marker is in flight,
\* every peer holds its task and one of them is not complete
ReachedButIncomplete ==
  \E id \in Epochs :
    /\ TopologyConnected /\ InitiateCount(id) = 1 /\ ~MarkerInFlight(id)
    /\ \A p \in Peers : HasTask(p, id)
    /\ \E p \in Peers : ~Completed(p, id)
====
